---- MODULE Spec2Model ----
(***************************************************************************)
(* Model of mle/__init__.py: the Distribution composition graph            *)
(* (Variable, Parameter, Distribution, Normal, Uniform, Mix2), the         *)
(* deduplicating traversals get_vars / get_params, the memoized            *)
(* compilation of the objective and gradient, the fit pipeline, and the    *)
(* support mask bound / alltrue.                                           *)
(***************************************************************************)
EXTENDS Integers, Sequences, FiniteSets, TLC

VARIABLES
    varobjs,   \* the Variable objects made by var(name), in creation order
    parobjs,   \* the Parameter objects made by par(name), in creation order
    dists,     \* the Distribution objects, in construction order
    memo,      \* the cache of @memoize: <<method, instance>> -> callable
    ncompile,  \* <<method, instance>> -> number of theano function() builds
    ret,       \* the call in progress or last finished, with what it returned
    bnd        \* the last evaluation of bound / Normal.logp / Mix2.logp

vars == <<varobjs, parobjs, dists, memo, ncompile, ret, bnd>>

\* ------------------------------------------------------------------ bounds
\* Largest number of Distribution objects constructed in one run.
MaxDists == 3

\* Largest number of calls the minimizer makes to the closures in one fit.
MaxIter == 2

\* Largest number of function() builds counted per method and instance.
MaxCompiles == 2

\* Largest number of conditions handed to bound.
MaxConds == 2

\* Number of dataset rows (length of a vector-valued leaf).
Rows == 2

\* ------------------------------------------------------------------ leaves
\* Variable.__init__(name): a leaf object; id is its identity.
Variable(i, name) == [kind |-> "Variable", id |-> i, name |-> name]

\* Parameter.__init__(name): a leaf object; id is its identity.
Parameter(i, name) == [kind |-> "Parameter", id |-> i, name |-> name]

\* var(name) called once per entry of names.
var(names) == [i \in 1..Len(names) |-> Variable(i, names[i])]

\* par(name) called once per entry of names.
par(names) == [i \in 1..Len(names) |-> Parameter(i, names[i])]

Range(seq) == {seq[i] : i \in 1..Len(seq)}

\* leaf.tvar: T.vector(name) / T.scalar(name) makes one fresh symbolic
\* variable per leaf object, so the handle is as distinct as the object.
tvar(leaf) == [tvar |-> leaf.kind, of |-> leaf.id]

\* ------------------------------------------------------------ OrderedDict
\* An OrderedDict is a sequence of <<key, value>> pairs in insertion order.
OD == <<>>

\* od.values()
Values(od) == [i \in 1..Len(od) |-> od[i][2]]

HasKey(od, k) == \E i \in 1..Len(od) : od[i][1] = k

\* od[k] = v: a new key is appended, an existing key keeps its position
\* and has its value replaced.
ODSet(od, k, v) ==
    IF HasKey(od, k)
    THEN [i \in 1..Len(od) |-> IF od[i][1] = k THEN <<k, v>> ELSE od[i]]
    ELSE Append(od, <<k, v>>)

\* ------------------------------------------------------------ Distribution
\* Distribution.__init__: three empty ordered maps. attr holds the
\* attributes the subclass constructor sets on self.
Distribution == [var |-> OD, param |-> OD, dist |-> OD]

\* _add_var(self, var): returns <<self after the call, the returned handle>>.
_add_var(self, v) ==
    <<[self EXCEPT !.var = ODSet(@, v.name, v)], tvar(v)>>

\* _add_param(self, param)
_add_param(self, p) ==
    <<[self EXCEPT !.param = ODSet(@, p.name, p)], tvar(p)>>

\* _add_dist(self, dist, name): dist is the index of the child in dists.
_add_dist(self, d, name) ==
    <<[self EXCEPT !.dist = ODSet(@, name, d)], d>>

\* Uniform.__init__(x, lower, upper)
Uniform(x, lower, upper) ==
    LET s0 == Distribution
        r1 == _add_var(s0, x)
        r2 == _add_param(r1[1], lower)
        r3 == _add_param(r2[1], upper)
    IN  [cls |-> "Uniform", var |-> r3[1].var, param |-> r3[1].param,
         dist |-> r3[1].dist,
         attr |-> [x |-> r1[2], lower |-> r2[2], upper |-> r3[2]]]

\* Normal.__init__(x, mu, sigma)
Normal(x, mu, sigma) ==
    LET s0 == Distribution
        r1 == _add_var(s0, x)
        r2 == _add_param(r1[1], mu)
        r3 == _add_param(r2[1], sigma)
    IN  [cls |-> "Normal", var |-> r3[1].var, param |-> r3[1].param,
         dist |-> r3[1].dist,
         attr |-> [x |-> r1[2], mu |-> r2[2], sigma |-> r3[2]]]

\* Mix2.__init__(frac, dist1, dist2)
Mix2(frac, dist1, dist2) ==
    LET s0 == Distribution
        r1 == _add_param(s0, frac)
        r2 == _add_dist(r1[1], dist1, "dist1")
        r3 == _add_dist(r2[1], dist2, "dist2")
    IN  [cls |-> "Mix2", var |-> r3[1].var, param |-> r3[1].param,
         dist |-> r3[1].dist,
         attr |-> [frac |-> r1[2], dist1 |-> r2[2], dist2 |-> r3[2]]]

\* ---------------------------------------------------------------- traversal
\* In with leaves compared by name instead of identity.
In_by_name(leaf, seq) == \E i \in 1..Len(seq) : seq[i].name = leaf.name

\* The "par not in unique" scan: leaves have no __eq__, so membership is
\* object identity.
In(leaf, seq) == \E i \in 1..Len(seq) : seq[i] = leaf

RECURSIVE Unique(_, _)
\* for par in ret: if par not in unique: unique.append(par)
Unique(rest, unique) ==
    IF rest = <<>> THEN unique
    ELSE Unique(Tail(rest),
                IF In(Head(rest), unique) THEN unique
                ELSE Append(unique, Head(rest)))

RECURSIVE get_vars(_)
RECURSIVE VarsOfDists(_)
\* for dist in self.dist.values(): ret += dist.get_vars()
VarsOfDists(ds) ==
    IF ds = <<>> THEN <<>>
    ELSE get_vars(Head(ds)) \o VarsOfDists(Tail(ds))

\* Distribution.get_vars on the Distribution object dists[d]
get_vars(d) ==
    Unique(Values(dists[d].var) \o VarsOfDists(Values(dists[d].dist)), <<>>)

RECURSIVE get_params(_)
RECURSIVE ParamsOfDists(_)
\* for dist in self.dist.values(): ret += dist.get_params()
ParamsOfDists(ds) ==
    IF ds = <<>> THEN <<>>
    ELSE get_params(Head(ds)) \o ParamsOfDists(Tail(ds))

\* get_params with the children's leaves collected before the node's own.
get_params_children_first(d) ==
    Unique(ParamsOfDists(Values(dists[d].dist)) \o Values(dists[d].param), <<>>)

\* Distribution.get_params on the Distribution object dists[d]
get_params(d) ==
    Unique(Values(dists[d].param) \o ParamsOfDists(Values(dists[d].dist)), <<>>)

\* Distribution.get_dists
get_dists(d) == Values(dists[d].dist)

\* Distribution._get_vars_pars: the leaves' symbolic handles, in the order
\* of get_vars and of get_params.
_get_vars_pars(d) ==
    LET variables == get_vars(d)
        parameters == get_params(d)
    IN  [var_args |-> [i \in 1..Len(variables) |-> tvar(variables[i])],
         par_args |-> [i \in 1..Len(parameters) |-> tvar(parameters[i])]]

\* ---------------------------------------------------------------- compiling
RECURSIVE logp(_)
\* self.logp() as a symbolic expression, kept as the set of symbolic
\* handles it reads: Uniform reads upper and lower, Normal reads x, mu and
\* sigma, Mix2 reads frac and what dist1.logp() and dist2.logp() read.
logp(d) ==
    LET self == dists[d]
    IN  CASE self.cls = "Uniform" -> {self.attr.upper, self.attr.lower}
          [] self.cls = "Normal" ->
                {self.attr.x, self.attr.mu, self.attr.sigma}
          [] self.cls = "Mix2" ->
                {self.attr.frac} \cup logp(self.attr.dist1)
                                 \cup logp(self.attr.dist2)

Count(n, key) == IF key \in DOMAIN n THEN n[key] ELSE 0

\* theano.function(inputs, outputs): the compiled callable. Every build is a
\* new object (build), with the positional inputs it was compiled for and
\* the handles its output expression reads. The engine is taken to return
\* a callable for every request.
function(method, d, inputs, reads, n) ==
    [method |-> method, self |-> d, build |-> Count(n, <<method, d>>) + 1,
     inputs |-> inputs, reads |-> reads]

\* @memoize on a method of no arguments but self: one cache entry per
\* method and instance, filled by the first call and returned by the later
\* ones. key is <<method, self>>, body the value a miss computes.
memoize(key, body, m, n) ==
    IF key \in DOMAIN m
    THEN [memo |-> m, ncompile |-> n, val |-> m[key]]
    ELSE [memo |-> (key :> body) @@ m,
          ncompile |-> (key :> (Count(n, key) + 1)) @@ n,
          val |-> body]

\* logp_compiled without the cache lookup: every call builds.
logp_compiled_uncached(d, m, n) ==
    LET a == _get_vars_pars(d)
        key == <<"logp_compiled", d>>
        f == function("logp_compiled", d, a.var_args \o a.par_args, logp(d), n)
    IN  [memo |-> (key :> f) @@ m,
         ncompile |-> (key :> (Count(n, key) + 1)) @@ n,
         val |-> f]

\* Distribution.logp_compiled
logp_compiled(d, m, n) ==
    LET a == _get_vars_pars(d)
    IN  memoize(<<"logp_compiled", d>>,
                function("logp_compiled", d, a.var_args \o a.par_args,
                         logp(d), n),
                m, n)

\* Distribution.grad_compiled: the gradient is taken with respect to pars.
grad_compiled(d, m, n) ==
    LET a == _get_vars_pars(d)
    IN  memoize(<<"grad_compiled", d>>,
                function("grad_compiled", d, a.var_args \o a.par_args,
                         logp(d), n),
                m, n)

\* ---------------------------------------------------------------------- fit
\* "name not in mapping" for the leaves in order: the index of the first
\* leaf whose name is no key of the mapping, 0 when every name is a key.
FirstMissing(leaves, mapping) ==
    LET bad == {i \in 1..Len(leaves) : leaves[i].name \notin DOMAIN mapping}
    IN  IF bad = {} THEN 0 ELSE CHOOSE i \in bad : \A j \in bad : i <= j

\* data_args.append(data[var.name]) for every collected variable
data_args(variables, data) ==
    [i \in 1..Len(variables) |-> data[variables[i].name]]

\* x0.append(init[par.name]) for every collected parameter
x0(parameters, init) ==
    [i \in 1..Len(parameters) |-> init[parameters[i].name]]

\* args with the candidate values ahead of the data arrays.
args_pars_first(dargs, pars) == pars \o dargs

\* args = data_args + list(pars), in func and in func_grad
args(dargs, pars) == dargs \o pars

\* for par, val in zip(parameters, results['x']): ret[par.name] = val
\* A later pair with the same name overwrites the earlier entry.
results_x(parameters, x) ==
    LET n == IF Len(parameters) < Len(x) THEN Len(parameters) ELSE Len(x)
        last(name) == CHOOSE i \in 1..n :
                         /\ parameters[i].name = name
                         /\ \A j \in 1..n :
                               parameters[j].name = name => j <= i
    IN  [name \in {parameters[i].name : i \in 1..n} |-> x[last(name)]]

\* fit with logp_compiled and grad_compiled called ahead of the validation
\* loops.
fit_compile_first(d, data, init, m, n) ==
    LET variables == get_vars(d)
        parameters == get_params(d)
        c1 == logp_compiled(d, m, n)
        c2 == grad_compiled(d, c1.memo, c1.ncompile)
        mv == FirstMissing(variables, data)
        mp == FirstMissing(parameters, init)
    IN  IF mv # 0 \/ mp # 0
        THEN [memo |-> c2.memo, ncompile |-> c2.ncompile,
              ret |-> [op |-> "fit", self |-> d, status |-> "raised",
                       exc |-> "ValueError",
                       leaf |-> IF mv # 0 THEN variables[mv]
                                ELSE parameters[mp],
                       data |-> DOMAIN data, init |-> DOMAIN init]]
        ELSE [memo |-> c2.memo, ncompile |-> c2.ncompile,
              ret |-> [op |-> "fit", self |-> d, status |-> "minimize",
                       data |-> DOMAIN data, init |-> DOMAIN init,
                       parameters |-> parameters,
                       data_args |-> data_args(variables, data),
                       x0 |-> x0(parameters, init),
                       obj_func |-> c1.val, obj_func_grad |-> c2.val,
                       ncalls |-> 0, call |-> [fn |-> "none"]]]

\* Distribution.fit up to the call of minimize: collection, the two
\* validation loops, then logp_compiled and grad_compiled, then the
\* closures. Returns the cache after the call and what the call has become.
fit(d, data, init, m, n) ==
    LET variables == get_vars(d)
        parameters == get_params(d)
        mv == FirstMissing(variables, data)
        mp == FirstMissing(parameters, init)
        c1 == logp_compiled(d, m, n)
        c2 == grad_compiled(d, c1.memo, c1.ncompile)
    IN  IF mv # 0
        THEN [memo |-> m, ncompile |-> n,
              ret |-> [op |-> "fit", self |-> d, status |-> "raised",
                       exc |-> "ValueError", leaf |-> variables[mv],
                       data |-> DOMAIN data, init |-> DOMAIN init]]
        ELSE IF mp # 0
        THEN [memo |-> m, ncompile |-> n,
              ret |-> [op |-> "fit", self |-> d, status |-> "raised",
                       exc |-> "ValueError", leaf |-> parameters[mp],
                       data |-> DOMAIN data, init |-> DOMAIN init]]
        ELSE [memo |-> c2.memo, ncompile |-> c2.ncompile,
              ret |-> [op |-> "fit", self |-> d, status |-> "minimize",
                       data |-> DOMAIN data, init |-> DOMAIN init,
                       parameters |-> parameters,
                       data_args |-> data_args(variables, data),
                       x0 |-> x0(parameters, init),
                       obj_func |-> c1.val, obj_func_grad |-> c2.val,
                       ncalls |-> 0, call |-> [fn |-> "none"]]]

\* ------------------------------------------------------------ support mask
\* A tensor is a sequence: a scalar has one element and broadcasts, a
\* vector has Rows elements.
At(t, i) == IF Len(t) = 1 THEN t[1] ELSE t[i]

Shape(a, b) == IF Len(a) >= Len(b) THEN Len(a) ELSE Len(b)

\* a * b, elementwise with broadcasting
Mul(a, b) == [i \in 1..Shape(a, b) |-> At(a, i) * At(b, i)]

\* a > b and a < b, elementwise: 1 where true, 0 where false
Gt(a, b) == [i \in 1..Shape(a, b) |-> IF At(a, i) > At(b, i) THEN 1 ELSE 0]

Lt(a, b) == [i \in 1..Shape(a, b) |-> IF At(a, i) < At(b, i) THEN 1 ELSE 0]

RECURSIVE alltrue_loop_sum(_, _)
\* The loop with the conditions added instead of multiplied.
alltrue_loop_sum(r, vals) ==
    IF vals = <<>> THEN r
    ELSE alltrue_loop_sum([i \in 1..Shape(r, Head(vals)) |->
                              At(r, i) + At(Head(vals), i)], Tail(vals))

RECURSIVE alltrue_loop(_, _)
\* for c in vals: ret = ret * (1 * c)
alltrue_loop(r, vals) ==
    IF vals = <<>> THEN r
    ELSE alltrue_loop(Mul(r, Mul(<<1>>, Head(vals))), Tail(vals))

\* alltrue(vals): ret = 1, then the loop
alltrue(vals) == alltrue_loop(<<1>>, vals)

\* -inf
neg_inf == [v |-> "-inf"]

\* T.switch(cond, ift, iff): ift where cond is not zero, iff elsewhere
switch(cond, ift, iff) ==
    LET m == Shape(ift, iff)
        n == IF Len(cond) >= m THEN Len(cond) ELSE m
    IN  [i \in 1..n |-> IF At(cond, i) # 0 THEN At(ift, i) ELSE At(iff, i)]

\* bound(logp, *conditions)
bound(lp, conditions) == switch(alltrue(conditions), lp, <<neg_inf>>)

\* The number 1.0 of frac and sigma, which are counted in units of 1/One.
One == 2

\* Normal.logp at the values x (a vector), mu and sigma (scalars): the
\* unmasked density is kept as a term, the mask is sigma > 0.
Normal_logp(x, mu, sigma) ==
    bound([i \in 1..Len(x) |->
              [v |-> "normal", x |-> x[i], mu |-> mu[1], sigma |-> sigma[1]]],
          <<Gt(sigma, <<0>>)>>)

\* Mix2.logp at the value frac and the two components' log-densities l1 and
\* l2: the unmasked mixture is kept as a term, the mask is frac > 0 and
\* frac < 1.
Mix2_logp(frac, l1, l2) ==
    bound([i \in 1..Shape(l1, l2) |->
              [v |-> "mix", frac |-> frac[1], a |-> At(l1, i), b |-> At(l2, i)]],
          <<Gt(frac, <<0>>), Lt(frac, <<One>>)>>)

\* ------------------------------------------------------------------ inputs
\* The keys a dataset and an initial-guess mapping may have.
DataKeys == {"x", "y"}

InitKeys == {"a", "b"}

\* The key sets of the mappings handed to fit: complete, or one key short.
KeySets(keys) == {keys} \cup {keys \ {k} : k \in keys}

\* data[k]: the array stored under key k of a dataset.
Column(k) == [array |-> k]

\* The values a component of the minimizer's solution vector may take.
SolVals == {1, 2}

\* The vector the minimizer hands to a closure: its i-th coordinate.
pars(n) == [i \in 1..n |-> [coordinate |-> i]]

\* The values of an elementwise log-density.
LogVals == {neg_inf, [v |-> "nan"], [v |-> "finite"]}

\* Tensors of log-densities and of 0/1 conditions: scalars and vectors.
LogTensors == [1..1 -> LogVals] \cup [1..Rows -> LogVals]

CondTensors == [1..1 -> {0, 1}] \cup [1..Rows -> {0, 1}]

\* The leaf pools of the composition-graph runs.
GraphPools ==
    { [v |-> <<"x", "y">>, p |-> <<"a">>],
      [v |-> <<"x", "x">>, p |-> <<"a">>],
      [v |-> <<"x">>, p |-> <<"a", "b">>],
      [v |-> <<"x">>, p |-> <<"a", "a">>] }

\* The leaf pool of the fit runs: parameters 1 and 2 are distinct objects
\* that carry the same name.
FitPool == [v |-> <<"x", "y">>, p |-> <<"a", "a", "b">>]

\* The models of the fit runs: a Normal, a second leaf density, and their
\* mixture. The second density is a Normal of the same variable or a
\* Uniform of the other one; it shares both parameters with the first, or
\* holds a distinct parameter of the same name as one of the first's, or
\* is itself given two distinct parameters of one name. The mixing
\* fraction is a parameter of the first density or a distinct parameter of
\* the same name.
FitForests ==
    LET V == var(FitPool.v)
        P == par(FitPool.p)
        pairs == {<<P[1], P[3]>>, <<P[2], P[3]>>, <<P[1], P[2]>>}
        second == {Normal(V[1], pq[1], pq[2]) : pq \in pairs}
                  \cup {Uniform(V[2], pq[1], pq[2]) : pq \in pairs}
    IN  {<<Normal(V[1], P[1], P[3]), s, Mix2(frac, 1, 2)>> :
            s \in second, frac \in {P[1], P[2]}}

\* ------------------------------------------------------------------ actions
\* No top-level call starts while fit is inside minimize: execution is
\* synchronous and single-threaded.
Idle == ~(ret.op = "fit" /\ ret.status = "minimize")

NoBound == [fn |-> "none"]

\* The state after the leaves and the model have been built.
Init ==
    /\ varobjs = var(FitPool.v)
    /\ parobjs = par(FitPool.p)
    /\ dists \in FitForests
    /\ memo = <<>>
    /\ ncompile = <<>>
    /\ ret = [op |-> "none"]
    /\ bnd = NoBound

\* The state after the leaves have been made and before any Distribution.
InitGraph ==
    /\ \E pool \in GraphPools :
          /\ varobjs = var(pool.v)
          /\ parobjs = par(pool.p)
    /\ dists = <<>>
    /\ memo = <<>>
    /\ ncompile = <<>>
    /\ ret = [op |-> "none"]
    /\ bnd = NoBound

\* The arguments of one evaluation of bound, Normal.logp or Mix2.logp,
\* before the evaluation.
InitBound ==
    /\ varobjs = <<>>
    /\ parobjs = <<>>
    /\ dists = <<>>
    /\ memo = <<>>
    /\ ncompile = <<>>
    /\ ret = [op |-> "none"]
    /\ \/ \E n \in 0..MaxConds :
             \E lp \in LogTensors, conditions \in [1..n -> CondTensors] :
                bnd = [fn |-> "bound", logp |-> lp, conditions |-> conditions,
                       done |-> FALSE]
       \/ \E x \in [1..Rows -> -1..1], mu \in -1..1, sigma \in -1..One :
             bnd = [fn |-> "Normal.logp", x |-> x, mu |-> mu, sigma |-> sigma,
                    done |-> FALSE]
       \/ \E frac \in -1..(One + 1), l1 \in [1..Rows -> LogVals],
             l2 \in [1..Rows -> LogVals] :
             bnd = [fn |-> "Mix2.logp", frac |-> frac, l1 |-> l1, l2 |-> l2,
                    done |-> FALSE]

NewNormal ==
    /\ Len(dists) < MaxDists
    /\ \E x \in Range(varobjs), mu \in Range(parobjs), sigma \in Range(parobjs) :
          dists' = Append(dists, Normal(x, mu, sigma))
    /\ UNCHANGED <<varobjs, parobjs, memo, ncompile, ret, bnd>>

NewUniform ==
    /\ Len(dists) < MaxDists
    /\ \E x \in Range(varobjs), lower \in Range(parobjs),
          upper \in Range(parobjs) :
          dists' = Append(dists, Uniform(x, lower, upper))
    /\ UNCHANGED <<varobjs, parobjs, memo, ncompile, ret, bnd>>

NewMix2 ==
    /\ Len(dists) < MaxDists
    /\ \E frac \in Range(parobjs), dist1 \in DOMAIN dists,
          dist2 \in DOMAIN dists :
          dists' = Append(dists, Mix2(frac, dist1, dist2))
    /\ UNCHANGED <<varobjs, parobjs, memo, ncompile, ret, bnd>>

CallGetVars ==
    /\ Idle
    /\ \E d \in DOMAIN dists :
          ret' = [op |-> "get_vars", self |-> d, val |-> get_vars(d)]
    /\ UNCHANGED <<varobjs, parobjs, dists, memo, ncompile, bnd>>

\* get_params that gathers the children's parameters into self.param.
CallGetParams_update ==
    /\ Idle
    /\ \E d \in DOMAIN dists :
          /\ ret' = [op |-> "get_params", self |-> d, val |-> get_params(d)]
          /\ dists' = [dists EXCEPT ![d].param =
                          [i \in 1..Len(get_params(d)) |->
                              <<get_params(d)[i].name, get_params(d)[i]>>]]
    /\ UNCHANGED <<varobjs, parobjs, memo, ncompile, bnd>>

CallGetParams ==
    /\ Idle
    /\ \E d \in DOMAIN dists :
          ret' = [op |-> "get_params", self |-> d, val |-> get_params(d)]
    /\ UNCHANGED <<varobjs, parobjs, dists, memo, ncompile, bnd>>

CallGetDists ==
    /\ Idle
    /\ \E d \in DOMAIN dists :
          ret' = [op |-> "get_dists", self |-> d, val |-> get_dists(d)]
    /\ UNCHANGED <<varobjs, parobjs, dists, memo, ncompile, bnd>>

CallLogpCompiled ==
    /\ Idle
    /\ \E d \in DOMAIN dists :
          /\ Count(ncompile, <<"logp_compiled", d>>) < MaxCompiles
          /\ \E c \in {logp_compiled(d, memo, ncompile)} :
                 /\ memo' = c.memo
                 /\ ncompile' = c.ncompile
                 /\ ret' = [op |-> "logp_compiled", self |-> d, val |-> c.val]
    /\ UNCHANGED <<varobjs, parobjs, dists, bnd>>

CallGradCompiled ==
    /\ Idle
    /\ \E d \in DOMAIN dists :
          /\ Count(ncompile, <<"grad_compiled", d>>) < MaxCompiles
          /\ \E c \in {grad_compiled(d, memo, ncompile)} :
                 /\ memo' = c.memo
                 /\ ncompile' = c.ncompile
                 /\ ret' = [op |-> "grad_compiled", self |-> d, val |-> c.val]
    /\ UNCHANGED <<varobjs, parobjs, dists, bnd>>

\* fit(data, init) from its first line to the call of minimize.
CallFit ==
    /\ Idle
    /\ \E d \in DOMAIN dists, dk \in KeySets(DataKeys), ik \in KeySets(InitKeys) :
          /\ Count(ncompile, <<"logp_compiled", d>>) < MaxCompiles
          /\ Count(ncompile, <<"grad_compiled", d>>) < MaxCompiles
          /\ \E f \in {fit(d, [k \in dk |-> Column(k)],
                           [k \in ik |-> [initial |-> k]], memo, ncompile)} :
                 /\ memo' = f.memo
                 /\ ncompile' = f.ncompile
                 /\ ret' = f.ret
    /\ UNCHANGED <<varobjs, parobjs, dists, bnd>>

\* minimize calls func(pars): obj_func(*args)
MinimizeCallsFunc ==
    /\ ~Idle
    /\ ret.ncalls < MaxIter
    /\ ret' = [ret EXCEPT
                 !.ncalls = @ + 1,
                 !.call = [fn |-> "func", callee |-> ret.obj_func,
                           args |-> args(ret.data_args, pars(Len(ret.x0)))]]
    /\ UNCHANGED <<varobjs, parobjs, dists, memo, ncompile, bnd>>

\* minimize calls func_grad(pars): obj_func_grad(*args)
MinimizeCallsFuncGrad ==
    /\ ~Idle
    /\ ret.ncalls < MaxIter
    /\ ret' = [ret EXCEPT
                 !.ncalls = @ + 1,
                 !.call = [fn |-> "func_grad", callee |-> ret.obj_func_grad,
                           args |-> args(ret.data_args, pars(Len(ret.x0)))]]
    /\ UNCHANGED <<varobjs, parobjs, dists, memo, ncompile, bnd>>

\* minimize returns a solution vector as long as x0, and fit maps it back
\* to the parameter names and returns.
MinimizeReturns ==
    /\ ~Idle
    /\ \E x \in [1..Len(ret.x0) -> SolVals] :
          ret' = [op |-> "fit", self |-> ret.self, status |-> "returned",
                  x0 |-> ret.x0, minimized |-> x,
                  x |-> results_x(ret.parameters, x)]
    /\ UNCHANGED <<varobjs, parobjs, dists, memo, ncompile, bnd>>

\* bound(logp, c1, ..., cn) on the drawn tensors
EvalBound ==
    /\ bnd.fn = "bound" /\ ~bnd.done
    /\ bnd' = [fn |-> "bound", logp |-> bnd.logp,
               conditions |-> bnd.conditions, done |-> TRUE,
               out |-> bound(bnd.logp, bnd.conditions)]
    /\ UNCHANGED <<varobjs, parobjs, dists, memo, ncompile, ret>>

\* Normal.logp() at the drawn values of its leaves
EvalNormal ==
    /\ bnd.fn = "Normal.logp" /\ ~bnd.done
    /\ bnd' = [fn |-> "Normal.logp", x |-> bnd.x, mu |-> bnd.mu,
               sigma |-> bnd.sigma, done |-> TRUE,
               out |-> Normal_logp(bnd.x, <<bnd.mu>>, <<bnd.sigma>>)]
    /\ UNCHANGED <<varobjs, parobjs, dists, memo, ncompile, ret>>

\* Mix2.logp() at the drawn frac and component log-densities
EvalMix2 ==
    /\ bnd.fn = "Mix2.logp" /\ ~bnd.done
    /\ bnd' = [fn |-> "Mix2.logp", frac |-> bnd.frac, l1 |-> bnd.l1,
               l2 |-> bnd.l2, done |-> TRUE,
               out |-> Mix2_logp(<<bnd.frac>>, bnd.l1, bnd.l2)]
    /\ UNCHANGED <<varobjs, parobjs, dists, memo, ncompile, ret>>

Next ==
    \/ CallGetVars
    \/ CallGetParams
    \/ CallGetDists
    \/ CallLogpCompiled
    \/ CallGradCompiled
    \/ CallFit
    \/ MinimizeCallsFunc
    \/ MinimizeCallsFuncGrad
    \/ MinimizeReturns

NextGraph ==
    \/ NewNormal
    \/ NewUniform
    \/ NewMix2
    \/ CallGetVars
    \/ CallGetParams

NextBound ==
    \/ EvalBound
    \/ EvalNormal
    \/ EvalMix2

\* The fit pipeline and the compilation cache on a built model.
Spec == Init /\ [][Next]_vars

\* The construction of the composition graph and its traversals.
SpecGraph == InitGraph /\ [][NextGraph]_vars

\* The support mask as a function of its arguments.
SpecBound == InitBound /\ [][NextBound]_vars

\* ------------------------------------------------------------------- claims
RECURSIVE Reach(_)
\* The Distribution objects reachable from d through the child maps.
Reach(d) == {d} \cup UNION {Reach(c) : c \in Range(Values(dists[d].dist))}

\* The leaf objects held in the var (param) map of a node reachable from d.
ReachableVars(d) == UNION {Range(Values(dists[e].var)) : e \in Reach(d)}

ReachableParams(d) == UNION {Range(Values(dists[e].param)) : e \in Reach(d)}

Occurrences(seq, leaf) == Cardinality({i \in 1..Len(seq) : seq[i] = leaf})

ExactlyOnce(seq, leaves) ==
    /\ Range(seq) = leaves
    /\ \A leaf \in leaves : Occurrences(seq, leaf) = 1

\* C1: get_vars and get_params called on any node of any tree return a list
\* in which every Variable (Parameter) object held by a reachable node
\* occurs exactly once, objects being told apart by identity and not by
\* name.
C1_EachReachableLeafOnce ==
    /\ ret.op = "get_vars" => ExactlyOnce(ret.val, ReachableVars(ret.self))
    /\ ret.op = "get_params" => ExactlyOnce(ret.val, ReachableParams(ret.self))

\* get_params has returned on a Mix2 whose two distinct children hold one
\* shared Parameter object, the list also holding two distinct objects of
\* one name.
C1_Witness ==
    /\ ret.op = "get_params"
    /\ dists[ret.self].cls = "Mix2"
    /\ LET c1 == dists[ret.self].attr.dist1
           c2 == dists[ret.self].attr.dist2
       IN  /\ c1 # c2
           /\ Range(Values(dists[c1].param))
                 \cap Range(Values(dists[c2].param)) # {}
    /\ \E i, j \in 1..Len(ret.val) :
          /\ ret.val[i] # ret.val[j]
          /\ ret.val[i].name = ret.val[j].name

RECURSIVE Preorder(_, _)
\* The leaves met by a depth-first walk from d, repeats included: the
\* node's own leaves in map order, then each child's walk in child order.
Preorder(d, field) ==
    LET own == Values(dists[d][field])
        kids == Values(dists[d].dist)
        Walk[i \in 0..Len(kids)] ==
            IF i = 0 THEN <<>> ELSE Walk[i - 1] \o Preorder(kids[i], field)
    IN  own \o Walk[Len(kids)]

\* seq without the elements that occurred at an earlier index.
FirstSeen(seq) ==
    LET first == {i \in 1..Len(seq) : \A j \in 1..(i - 1) : seq[j] # seq[i]}
        Keep[i \in 0..Len(seq)] ==
            IF i = 0 THEN <<>>
            ELSE IF i \in first THEN Append(Keep[i - 1], seq[i])
            ELSE Keep[i - 1]
    IN  Keep[Len(seq)]

C2_Order ==
    /\ ret.op = "get_vars" => ret.val = FirstSeen(Preorder(ret.self, "var"))
    /\ ret.op = "get_params" =>
          ret.val = FirstSeen(Preorder(ret.self, "param"))

\* ret keeps the last call's result while Distributions are constructed,
\* so a step to the same call on the same instance compares two calls.
C2_Stable ==
    (/\ ret.op \in {"get_vars", "get_params"}
     /\ ret'.op = ret.op
     /\ ret'.self = ret.self)
    => ret'.val = ret.val

FitMissing(r) ==
    \/ \E v \in Range(get_vars(r.self)) : v.name \notin r.data
    \/ \E q \in Range(get_params(r.self)) : q.name \notin r.init

C3_Step ==
    (/\ Idle
     /\ ret'.op = "fit"
     /\ ret'.status \in {"raised", "minimize"}
     /\ FitMissing(ret'))
    => /\ ret'.status = "raised"
       /\ ret'.exc = "ValueError"
       /\ \/ /\ ret'.leaf \in Range(get_vars(ret'.self))
             /\ ret'.leaf.name \notin ret'.data
          \/ /\ ret'.leaf \in Range(get_params(ret'.self))
             /\ ret'.leaf.name \notin ret'.init
       /\ memo' = memo
       /\ ncompile' = ncompile

\* C3: a fit call with a collected Variable's name absent from data, or a
\* collected Parameter's name absent from init, ends in a ValueError naming
\* a missing leaf, builds no callable and does not enter minimize.
C3_ValidationBeforeCompile == [][C3_Step]_vars

\* The first fit on a model, nothing cached, has failed on a Parameter
\* after every Variable was found in data.
C3_Witness ==
    /\ ret.op = "fit"
    /\ ret.status = "raised"
    /\ ret.leaf.kind = "Parameter"
    /\ memo = <<>>

\* C4: each of the objective and the gradient is built exactly once for
\* every instance on which it has been requested; a call returns the
\* callable cached for its own instance, which no other call has rebuilt.
C4_CompiledOncePerInstance ==
    /\ DOMAIN memo = DOMAIN ncompile
    /\ \A key \in DOMAIN memo :
          /\ ncompile[key] = 1
          /\ memo[key].method = key[1]
          /\ memo[key].self = key[2]
          /\ memo[key].build = 1
    /\ ret.op \in {"logp_compiled", "grad_compiled"} =>
          /\ <<ret.op, ret.self>> \in DOMAIN memo
          /\ ret.val = memo[<<ret.op, ret.self>>]
    /\ (ret.op = "fit" /\ ret.status = "minimize") =>
          /\ <<"logp_compiled", ret.self>> \in DOMAIN memo
          /\ <<"grad_compiled", ret.self>> \in DOMAIN memo
          /\ ret.obj_func = memo[<<"logp_compiled", ret.self>>]
          /\ ret.obj_func_grad = memo[<<"grad_compiled", ret.self>>]

\* A fit is running on one of two structurally identical instances while
\* the callables of both are cached.
C4_Witness ==
    /\ dists[1] = dists[2]
    /\ ret.op = "fit"
    /\ ret.status = "minimize"
    /\ ret.self = 1
    /\ {<<"logp_compiled", 1>>, <<"grad_compiled", 1>>,
        <<"logp_compiled", 2>>, <<"grad_compiled", 2>>} \subseteq DOMAIN memo

\* C5: after a successful fit, the name of the i-th collected Parameter is
\* mapped to the i-th component of the minimizer's solution, the index at
\* which init[name] was placed in x0.
C5_NameMapsToOwnComponent ==
    (ret.op = "fit" /\ ret.status = "returned") =>
       LET parameters == get_params(ret.self)
       IN  /\ Len(ret.minimized) = Len(parameters)
           /\ \A i \in 1..Len(parameters) :
                 /\ ret.x0[i] = [initial |-> parameters[i].name]
                 /\ parameters[i].name \in DOMAIN ret.x
                 /\ ret.x[parameters[i].name] = ret.minimized[i]

\* C6: bound yields logp where every condition is true and -inf where one
\* is false, for any number of conditions; Mix2.logp is -inf everywhere
\* when frac <= 0 or frac >= 1, and Normal.logp when sigma <= 0.
C6_BoundMasks ==
    bnd.fn # "none" /\ bnd.done =>
       /\ bnd.fn = "bound" =>
             \A i \in 1..Len(bnd.out) :
                bnd.out[i] =
                   IF \A c \in 1..Len(bnd.conditions) :
                         At(bnd.conditions[c], i) = 1
                   THEN At(bnd.logp, i) ELSE neg_inf
       /\ (bnd.fn = "Mix2.logp" /\ (bnd.frac <= 0 \/ bnd.frac >= One)) =>
             /\ Len(bnd.out) = Rows
             /\ \A i \in 1..Rows : bnd.out[i] = neg_inf
       /\ (bnd.fn = "Normal.logp" /\ bnd.sigma <= 0) =>
             /\ Len(bnd.out) = Rows
             /\ \A i \in 1..Rows : bnd.out[i] = neg_inf

\* bound has been evaluated with two conditions on a vector, one element
\* masked and one passed through.
C6_Witness ==
    /\ bnd.fn = "bound"
    /\ bnd.done
    /\ Len(bnd.conditions) = 2
    /\ Len(bnd.logp) = Rows
    /\ bnd.logp[1] # neg_inf
    /\ bnd.logp[2] # neg_inf
    /\ bnd.out[1] = neg_inf
    /\ bnd.out[2] = bnd.logp[2]

\* C7: every call of a closure hands its callable the data arrays in
\* get_vars order followed by the candidate values in get_params order,
\* which is position for position the input list the callable was compiled
\* with: the handle of a Variable gets the array stored under its name, the
\* handle of the j-th Parameter the j-th candidate value.
C7_ArgsMatchCompiledInputs ==
    (ret.op = "fit" /\ ret.status = "minimize" /\ ret.call.fn # "none") =>
       LET variables == get_vars(ret.self)
           parameters == get_params(ret.self)
           nv == Len(variables)
           a == ret.call.args
           callee == ret.call.callee
       IN  /\ callee = memo[<<IF ret.call.fn = "func" THEN "logp_compiled"
                                ELSE "grad_compiled", ret.self>>]
           /\ Len(a) = nv + Len(parameters)
           /\ Len(callee.inputs) = Len(a)
           /\ \A i \in 1..nv :
                 /\ a[i] = Column(variables[i].name)
                 /\ callee.inputs[i] = tvar(variables[i])
           /\ \A j \in 1..Len(parameters) :
                 /\ a[nv + j] = [coordinate |-> j]
                 /\ callee.inputs[nv + j] = tvar(parameters[j])
                 /\ ret.x0[j] = [initial |-> parameters[j].name]

\* The minimizer has called the gradient closure after another call, on a
\* model with two variables and two or more parameters.
C7_Witness ==
    /\ ret.op = "fit"
    /\ ret.status = "minimize"
    /\ ret.call.fn = "func_grad"
    /\ ret.ncalls = 2
    /\ Len(ret.data_args) = 2
    /\ Len(ret.x0) >= 2

\* C8: no call of get_vars, get_params, get_dists, logp_compiled,
\* grad_compiled or fit, failing or not, changes the var, param and dist
\* maps of any Distribution.
C8_MapsUnchanged == [][dists' = dists]_vars

\* A fit has returned on a model on which all six callables are cached.
C8_Witness ==
    /\ ret.op = "fit"
    /\ ret.status = "returned"
    /\ Cardinality(DOMAIN memo) = 6

\* C9: every handle returned by _add_var / _add_param and read by the
\* log-density is among the inputs the objective and the gradient are
\* compiled with.
C9_InputsCoverLogp ==
    \A key \in DOMAIN memo : memo[key].reads \subseteq Range(memo[key].inputs)

\* C10: after a successful fit the returned mapping has exactly one entry
\* per collected Parameter, as many as the solution vector has components.
C10_OneEntryPerParameter ==
    (ret.op = "fit" /\ ret.status = "returned") =>
       /\ Cardinality(DOMAIN ret.x) = Len(get_params(ret.self))
       /\ Cardinality(DOMAIN ret.x) = Len(ret.minimized)
====
